---- MODULE Spec2Model ----
(***************************************************************************)
(* Model of uptime (src/src/main.rs): the Period / TimeTracker ledger, the *)
(* background ping thread, the mpsc channel and the foreground curses loop.*)
(*                                                                         *)
(* Time is the wall clock in whole seconds (DateTime::timestamp() and      *)
(* UNIX_EPOCH.elapsed().as_secs() both truncate to seconds), counted from  *)
(* the second in which main() starts.  Every read of the clock inside an   *)
(* operation is a separate read: the second may change between two reads.  *)
(***************************************************************************)
EXTENDS Integers, Sequences, FiniteSets, TLC

\* ------------------------------------------------------------------ bounds
\* last second of the wall clock that is explored
MaxTime == 3
\* most seconds that can pass between the first and last clock read of one call
MaxSkew == 1
\* most batches waiting in the (unbounded) channel
MaxChan == 2
\* most history entries (both histories together) in the ledger-only runs
MaxPeriods == 4

\* seconds explored after each of the long running times
FmtSteps == 20

\* ------------------------------------------------------- program constants
\* the three hosts added to the Ping object
NumHosts == 3
\* thread::sleep(Duration::from_secs(1))
SleepSecs == 1

VARIABLES
    now,             \* wall clock, whole seconds
    tracker,         \* the TimeTracker owned by main
    chan,            \* mpsc channel: batches sent and not yet received
    bg,              \* background thread: position and bookkeeping
    fg,              \* foreground loop: "loop" or "done" (after 'q')
    list_selection,  \* selection index of the downtime list
    dropped,         \* the classifier's count for the batch received last (-1: none yet)
    lastCall,        \* history: last TimeTracker call ("new", "down", "up")
    firstCall        \* history: first transition called ("none", "down", "up")

vars == <<now, tracker, chan, bg, fg, list_selection, dropped, lastCall, firstCall>>

\* ------------------------------------------------------------ Option<T>
None == <<>>
Some(x) == <<x>>
is_some(o) == o # <<>>
unwrap(o) == o[1]

Min(a, b) == IF a < b THEN a ELSE b

\* ---------------------------------------------------------------- Period
\* Period::new(): start = Local::now() read at second t, len = 0.
\* fins counts the finalize() calls made on this instance (history only).
Period_new(t) == [start |-> t, len |-> 0, fins |-> 0]

\* a finalize() that closes a period only once and then keeps the first length
finalize_idempotent(p, t) ==
    IF p.fins > 0 THEN p
    ELSE [p EXCEPT !.len = t - p.start, !.fins = p.fins + 1]

\* Period::finalize() with the clock read at second t
finalize(p, t) == [p EXCEPT !.len = t - p.start, !.fins = p.fins + 1]

\* Period::elapsed() with the clock read at second t
elapsed(p, t) == IF p.len = 0 THEN t - p.start ELSE p.len

\* Vec::last_mut() followed by finalize() on it, if any
finalize_last(v, t) ==
    IF Len(v) > 0 THEN [v EXCEPT ![Len(v)] = finalize(v[Len(v)], t)] ELSE v

\* ----------------------------------------------------------- TimeTracker
\* new() that forgets line 64 (uptimes.push)
TimeTracker_new_unseeded(r) ==
    [start     |-> r[2],
     uptime    |-> Some(Period_new(r[3])),
     uptimes   |-> <<>>,
     downtime  |-> None,
     downtimes |-> <<>>]

\* TimeTracker::new(); r[1], r[2], r[3] are the clock reads of lines 64, 67, 68
TimeTracker_new(r) ==
    [start     |-> r[2],
     uptime    |-> Some(Period_new(r[3])),
     uptimes   |-> <<Period_new(r[1])>>,
     downtime  |-> None,
     downtimes |-> <<>>]

\* down() that forgets line 80 (self.uptime = None)
down_keeps_uptime(self, r) ==
    [self EXCEPT
        !.uptimes   = finalize_last(self.uptimes, r[1]),
        !.downtime  = Some(Period_new(r[2])),
        !.downtimes = Append(self.downtimes, Period_new(r[3]))]

\* TimeTracker::down(); r[1], r[2], r[3] are the clock reads of lines 77, 81, 82
down(self, r) ==
    [self EXCEPT
        !.uptimes   = finalize_last(self.uptimes, r[1]),
        !.uptime    = None,
        !.downtime  = Some(Period_new(r[2])),
        !.downtimes = Append(self.downtimes, Period_new(r[3]))]

\* up() that forgets line 92 (self.uptimes.push)
up_no_push(self, r) ==
    [self EXCEPT
        !.downtimes = finalize_last(self.downtimes, r[1]),
        !.uptime    = Some(Period_new(r[2])),
        !.downtime  = None]

\* up() whose line 86 was copied from down(): it finalizes self.uptimes.last_mut()
up_finalizes_uptimes(self, r) ==
    [self EXCEPT
        !.uptime    = Some(Period_new(r[2])),
        !.downtime  = None,
        !.uptimes   = Append(finalize_last(self.uptimes, r[1]), Period_new(r[3]))]

\* TimeTracker::up(); r[1], r[2], r[3] are the clock reads of lines 87, 90, 92
up(self, r) ==
    [self EXCEPT
        !.downtimes = finalize_last(self.downtimes, r[1]),
        !.uptime    = Some(Period_new(r[2])),
        !.downtime  = None,
        !.uptimes   = Append(self.uptimes, Period_new(r[3]))]

is_down(self) == is_some(self.downtime)

is_up(self) == is_some(self.uptime)

\* ------------------------------------------------------- format_duration
DigitChars == <<"0", "1", "2", "3", "4", "5", "6", "7", "8", "9">>

\* decimal digits of n, most significant first
RECURSIVE Digits(_)
Digits(n) ==
    IF n < 10 THEN <<DigitChars[n + 1]>>
    ELSE Append(Digits(n \div 10), DigitChars[(n % 10) + 1])

\* the format item {:02}: at least two digits, padded with zeros on the left
Pad2(n) == IF n < 10 THEN <<"0">> \o Digits(n) ELSE Digits(n)

\* format_duration() that forgets line 480 (total -= hours * (60 * 60))
format_duration_keeps_hours(s) ==
    LET hours  == s \div (60 * 60)
        mins   == s \div 60
        total2 == s - mins * 60
        secs   == total2
    IN  Pad2(hours) \o <<":">> \o Pad2(mins) \o <<":">> \o Pad2(secs)

\* format_duration(dur) for dur.as_secs() = s; the String is a sequence of characters
format_duration(s) ==
    LET hours  == s \div (60 * 60)
        total1 == s - hours * (60 * 60)
        mins   == total1 \div 60
        total2 == total1 - mins * 60
        secs   == total2
    IN  Pad2(hours) \o <<":">> \o Pad2(mins) \o <<":">> \o Pad2(secs)

\* the literal "00:00:00"
ZeroStr == <<"0", "0", ":", "0", "0", ":", "0", "0">>

\* ------------------------------------------------ TimeTracker statistics
\* every statistic is evaluated with the clock reading second t

\* TimeTracker::downtime_str()
downtime_str(self, t) ==
    IF is_some(self.downtime)
    THEN format_duration(elapsed(unwrap(self.downtime), t))
    ELSE ZeroStr

\* TimeTracker::uptime_str()
uptime_str(self, t) ==
    IF is_some(self.uptime)
    THEN format_duration(elapsed(unwrap(self.uptime), t))
    ELSE ZeroStr

\* iter().fold(0, |sum, period| sum + period.elapsed().as_secs())
RECURSIVE fold_elapsed(_, _)
fold_elapsed(v, t) ==
    IF Len(v) = 0 THEN 0
    ELSE fold_elapsed(SubSeq(v, 1, Len(v) - 1), t) + elapsed(v[Len(v)], t)

\* TimeTracker::total_downtime_str()
total_downtime_str(self, t) == format_duration(fold_elapsed(self.downtimes, t))

\* TimeTracker::total_uptime_str()
total_uptime_str(self, t) == format_duration(fold_elapsed(self.uptimes, t))

\* f64 division a as f64 / b as f64 of two unsigned integers: IEEE 754 gives
\* NaN for 0/0 and +infinity for a/0 with a > 0; a finite quotient is kept as
\* the fraction num/den
f64_div(a, b) ==
    IF b = 0
    THEN [kind |-> IF a = 0 THEN "NaN" ELSE "inf", num |-> a, den |-> b]
    ELSE [kind |-> "finite", num |-> a, den |-> b]

\* TimeTracker::uptime_percentage()
uptime_percentage(self, t) ==
    LET total_up == fold_elapsed(self.uptimes, t)
        total    == t - self.start
    IN  f64_div(total_up, total)

\* Iterator::max_by(|x, y| x.elapsed().cmp(&y.elapsed())): None for an empty
\* vector, otherwise the last of the elements whose elapsed() is greatest
RECURSIVE max_by(_, _)
max_by(v, t) ==
    IF Len(v) = 0 THEN None
    ELSE LET rest == max_by(SubSeq(v, 1, Len(v) - 1), t)
             x    == v[Len(v)]
         IN  IF is_some(rest) /\ elapsed(unwrap(rest), t) > elapsed(x, t)
             THEN rest
             ELSE Some(x)

\* longest_uptime_str() without the comparison against the open period
longest_uptime_str_history_only(self, t) ==
    LET max == max_by(self.uptimes, t)
    IN  IF is_some(max)
        THEN format_duration(elapsed(unwrap(max), t))
        ELSE ZeroStr

\* TimeTracker::longest_uptime_str()
longest_uptime_str(self, t) ==
    LET max  == max_by(self.uptimes, t)
        rest == IF is_some(max)
                THEN format_duration(elapsed(unwrap(max), t))
                ELSE ZeroStr
    IN  IF is_some(self.uptime)
        THEN IF is_some(max)
             THEN IF elapsed(unwrap(self.uptime), t) > elapsed(unwrap(max), t)
                  THEN uptime_str(self, t)
                  ELSE rest
             ELSE uptime_str(self, t)
        ELSE rest

\* TimeTracker::longest_downtime_str(); lines 175 and 178 return uptime_str()
longest_downtime_str(self, t) ==
    LET max  == max_by(self.downtimes, t)
        rest == IF is_some(max)
                THEN format_duration(elapsed(unwrap(max), t))
                ELSE ZeroStr
    IN  IF is_some(self.downtime)
        THEN IF is_some(max)
             THEN IF elapsed(unwrap(self.downtime), t) > elapsed(unwrap(max), t)
                  THEN uptime_str(self, t)
                  ELSE rest
             ELSE uptime_str(self, t)
        ELSE rest

\* ------------------------------------------------------------ the clock
\* the three successive clock reads of one call that starts in second t
ClockReads(t) ==
    {r \in [1..3 -> t..Min(t + MaxSkew, MaxTime)] : r[1] <= r[2] /\ r[2] <= r[3]}

\* ------------------------------------------------------- ping responses
\* what oping reports per host: dropped is 1 for a lost echo, 0 otherwise
PingItems == [dropped : {0, 1}]

\* the result of one successful ping.send(): one PingItem per added host
Replies == [1..NumHosts -> PingItems]

\* PingResponse::new(resp)
PingResponse_new(resp) == [dropped |-> (resp.dropped = 1)]

\* the loop of lines 252-254: resp.push(PingResponse::new(&res))
responses_of(reply) == [i \in 1..NumHosts |-> PingResponse_new(reply[i])]

\* ----------------------------------------------------------- classifier
\* the loop of lines 309-319: dropped += 1 for every resp.dropped
RECURSIVE count_dropped(_)
count_dropped(responses) ==
    IF Len(responses) = 0 THEN 0
    ELSE count_dropped(SubSeq(responses, 1, Len(responses) - 1))
         + (IF responses[Len(responses)].dropped THEN 1 ELSE 0)

\* the classifier without the is_up() / is_down() tests
transition_no_edge(self, responses) ==
    IF count_dropped(responses) = 3 THEN "down" ELSE "up"

\* the classifier with a majority threshold instead of dropped == 3
transition_majority(self, responses) ==
    LET n == count_dropped(responses)
    IN  IF n >= 2 /\ is_up(self) THEN "down"
        ELSE IF is_down(self) /\ n < 2 THEN "up"
        ELSE "none"

\* lines 321-326: which TimeTracker transition the batch triggers
transition(self, responses) ==
    LET n == count_dropped(responses)
    IN  IF n = 3 /\ is_up(self) THEN "down"
        ELSE IF is_down(self) /\ n # 3 THEN "up"
        ELSE "none"

\* the call chosen by transition(), made with clock reads r
apply(self, call, r) ==
    IF call = "down" THEN down(self, r)
    ELSE IF call = "up" THEN up(self, r)
    ELSE self

\* ------------------------------------------------------- key handling
Keys == {"none", "q", "f", "u", "d", "resize", "other"}

\* the 'd' arm without its test against downtimes().len()
getch_unbounded(sel, key, self) ==
    IF key = "u" THEN (IF sel > 0 THEN sel - 1 ELSE sel)
    ELSE IF key = "d" THEN sel + 1
    ELSE sel

\* the match on window.getch() of lines 265-296, as far as list_selection goes
getch(sel, key, self) ==
    IF key = "u" THEN (IF sel > 0 THEN sel - 1 ELSE sel)
    ELSE IF key = "d" THEN (IF sel < Len(self.downtimes) THEN sel + 1 ELSE sel)
    ELSE sel

\* a resize arm that rebuilds the downtime list from nothing
on_key_resize_clears(sel, self, key) ==
    IF key = "resize"
    THEN [list_selection |-> 0, tracker |-> [self EXCEPT !.downtimes = <<>>]]
    ELSE [list_selection |-> getch(sel, key, self), tracker |-> self]

\* what the match of lines 265-296 leaves behind for a key other than 'q':
\* the 'u' and 'd' arms write list_selection, the KeyResize arm re-creates
\* down_list and clears the screen, no arm touches the tracker
on_key(sel, self, key) ==
    [list_selection |-> getch(sel, key, self), tracker |-> self]

\* a receive that hands out the newest batch and discards the older ones
try_recv_newest(c) ==
    IF c = <<>> THEN [status |-> None, rest |-> c]
    ELSE [status |-> Some(c[Len(c)]), rest |-> <<>>]

\* recver.try_recv() of line 298 on channel contents c: Err (None) at once
\* when the channel is empty, otherwise Ok with the oldest batch
try_recv(c) ==
    IF c = <<>> THEN [status |-> None, rest |-> c]
    ELSE [status |-> Some(Head(c)), rest |-> Tail(c)]

\* ------------------------------------------------------------------ Init
\* main() up to the first iteration of the loop: TimeTracker::new(), the
\* channel, the spawned thread at the top of its loop, list_selection = 0
Init ==
    \E r \in ClockReads(0) :
        /\ now = r[3]
        /\ tracker = TimeTracker_new(r)
        /\ chan = <<>>
        /\ bg = [pc |-> "probe", wake |-> 0, attempts |-> 0]
        /\ fg = "loop"
        /\ list_selection = 0
        /\ dropped = -1
        /\ lastCall = "new"
        /\ firstCall = "none"

\* --------------------------------------------------------------- actions
\* a second of wall-clock time passes
Tick ==
    /\ fg = "loop"
    /\ now < MaxTime
    /\ now' = now + 1
    /\ UNCHANGED <<tracker, chan, bg, fg, list_selection, dropped, lastCall, firstCall>>

\* a probe attempt that ends in `continue` (line 242 or 247): nothing is sent
\* and the loop starts over at once; attempts counts the attempts made since
\* the last sleep (history only, capped at 2)
probe_failed(b) == [b EXCEPT !.attempts = Min(b.attempts + 1, 2)]

\* lines 234-243: set_timeout / add_host is rejected
BgConfigFail ==
    /\ fg = "loop"
    /\ bg.pc = "probe"
    /\ bg' = probe_failed(bg)
    /\ UNCHANGED <<now, tracker, chan, fg, list_selection, dropped, lastCall, firstCall>>

\* lines 245-248: ping.send() returns an error
BgSendFail ==
    /\ fg = "loop"
    /\ bg.pc = "probe"
    /\ bg' = probe_failed(bg)
    /\ UNCHANGED <<now, tracker, chan, fg, list_selection, dropped, lastCall, firstCall>>

\* lines 245-258: ping.send() succeeds, the batch is sent, the thread sleeps
BgDeliver ==
    /\ fg = "loop"
    /\ bg.pc = "probe"
    /\ Len(chan) < MaxChan
    /\ \E reply \in Replies :
        chan' = Append(chan, responses_of(reply))
    /\ bg' = [pc |-> "sleep", wake |-> now + SleepSecs,
              attempts |-> Min(bg.attempts + 1, 2)]
    /\ UNCHANGED <<now, tracker, fg, list_selection, dropped, lastCall, firstCall>>

\* line 258: thread::sleep(1 s) returns, the loop starts over
BgWake ==
    /\ fg = "loop"
    /\ bg.pc = "sleep"
    /\ now >= bg.wake
    /\ bg' = [pc |-> "probe", wake |-> 0, attempts |-> 0]
    /\ UNCHANGED <<now, tracker, chan, fg, list_selection, dropped, lastCall, firstCall>>

\* one iteration of the foreground loop (lines 264-335): one key, at most one
\* batch, then the two render calls (which read the ledger and change nothing)
Foreground ==
    /\ fg = "loop"
    /\ \E key \in Keys :
        IF key = "q"
        THEN /\ fg' = "done"
             /\ UNCHANGED <<now, tracker, chan, bg, list_selection, dropped, lastCall, firstCall>>
        ELSE LET k    == on_key(list_selection, tracker, key)
                 recv == try_recv(chan)
             IN  /\ list_selection' = k.list_selection
                 /\ chan' = recv.rest
                 /\ IF is_some(recv.status)
                    THEN LET responses == unwrap(recv.status)
                             call      == transition(k.tracker, responses)
                         IN  /\ dropped' = count_dropped(responses)
                             /\ IF call = "none"
                                THEN /\ tracker' = k.tracker
                                     /\ UNCHANGED <<now, lastCall, firstCall>>
                                ELSE \E r \in ClockReads(now) :
                                        /\ tracker' = apply(k.tracker, call, r)
                                        /\ now' = r[3]
                                        /\ lastCall' = call
                                        /\ firstCall' = IF firstCall = "none" THEN call
                                                        ELSE firstCall
                    ELSE /\ tracker' = k.tracker
                         /\ UNCHANGED <<now, dropped, lastCall, firstCall>>
                 /\ UNCHANGED <<bg, fg>>

Next == Tick \/ BgConfigFail \/ BgSendFail \/ BgDeliver \/ BgWake \/ Foreground

\* the program: background thread, channel, foreground loop
Spec == Init /\ [][Next]_vars

\* ------------------------------------------------- the ledger on its own
\* TimeTracker::down() called by an arbitrary caller, in any state
CallDown ==
    /\ Len(tracker.uptimes) + Len(tracker.downtimes) < MaxPeriods
    /\ \E r \in ClockReads(now) :
        /\ tracker' = down(tracker, r)
        /\ now' = r[3]
    /\ lastCall' = "down"
    /\ firstCall' = IF firstCall = "none" THEN "down" ELSE firstCall
    /\ UNCHANGED <<chan, bg, fg, list_selection, dropped>>

\* TimeTracker::up() called by an arbitrary caller, in any state
CallUp ==
    /\ Len(tracker.uptimes) + Len(tracker.downtimes) < MaxPeriods
    /\ \E r \in ClockReads(now) :
        /\ tracker' = up(tracker, r)
        /\ now' = r[3]
    /\ lastCall' = "up"
    /\ firstCall' = IF firstCall = "none" THEN "up" ELSE firstCall
    /\ UNCHANGED <<chan, bg, fg, list_selection, dropped>>

NextApi == Tick \/ CallDown \/ CallUp

\* any sequence of down() and up() calls on a fresh TimeTracker
SpecApi == Init /\ [][NextApi]_vars

\* down() not directly after down()
AltDown == lastCall # "down" /\ CallDown

\* up() not directly after up()
AltUp == lastCall # "up" /\ CallUp

NextAlt == Tick \/ AltDown \/ AltUp

\* strictly alternating down() / up() calls on a fresh TimeTracker
SpecAlt == Init /\ [][NextAlt]_vars

\* ------------------------------------------- the pipeline in the long run
\* line 258 returns: every sleep ends (how long it took is not followed)
SleepReturns ==
    /\ fg = "loop"
    /\ bg.pc = "sleep"
    /\ bg' = [pc |-> "probe", wake |-> 0, attempts |-> 0]
    /\ UNCHANGED <<now, tracker, chan, fg, list_selection, dropped, lastCall, firstCall>>

\* an iteration of the foreground loop, as long as the ledger holds no more
\* than MaxPeriods periods; the passing of time is not followed here (the
\* clock stands still), since no step of the pipeline waits for it
BoundedForeground ==
    /\ Foreground
    /\ Len(tracker'.uptimes) + Len(tracker'.downtimes) <= MaxPeriods
    /\ now' = now

\* main() has set up the ledger within the second in which it started
InitLive == Init /\ now = 0

NextLive ==
    BgConfigFail \/ BgSendFail \/ BgDeliver \/ SleepReturns \/ BoundedForeground

\* the pipeline without a limit on its running time: the thread's sleep
\* always ends and the foreground loop keeps iterating
SpecLive ==
    /\ InitLive
    /\ [][NextLive]_vars
    /\ WF_vars(SleepReturns)
    /\ WF_vars(BoundedForeground)

\* ---------------------------------------------- rendering long durations
\* running times at which the rendering of a duration is looked at
FmtInputs == {0, 59, 60, 3599, 3600, 3661, 86399, 86400, 359999}

\* a ledger created in second 0 that has stayed up, seen after one of the
\* running times of FmtInputs
InitFmt ==
    \E s \in FmtInputs :
        /\ now = s
        /\ tracker = TimeTracker_new(<<0, 0, 0>>)
        /\ chan = <<>>
        /\ bg = [pc |-> "probe", wake |-> 0, attempts |-> 0]
        /\ fg = "loop"
        /\ list_selection = 0
        /\ dropped = -1
        /\ lastCall = "new"
        /\ firstCall = "none"

\* a second passes, up to FmtSteps seconds after a running time of FmtInputs
Elapse ==
    /\ \E base \in FmtInputs : base <= now /\ now < base + FmtSteps
    /\ now' = now + 1
    /\ UNCHANGED <<tracker, chan, bg, fg, list_selection, dropped, lastCall, firstCall>>

\* the statistics of an undisturbed ledger, rendered second after second
SpecFmt == InitFmt /\ [][Elapse]_vars

\* ================================================================ claims
\* reading a rendered "HH:MM:SS" back as a number of seconds
DigitValue(c) == CHOOSE d \in 0..9 : DigitChars[d + 1] = c

RECURSIVE NumberOf(_)
NumberOf(str) ==
    IF Len(str) = 0 THEN 0
    ELSE 10 * NumberOf(SubSeq(str, 1, Len(str) - 1)) + DigitValue(str[Len(str)])

SecondsOf(str) ==
    LET n == Len(str)
    IN  NumberOf(SubSeq(str, 1, n - 6)) * 3600
        + NumberOf(SubSeq(str, n - 4, n - 3)) * 60
        + NumberOf(SubSeq(str, n - 1, n))

\* every target of the batch was unreachable
AllDropped(responses) == \A i \in 1..Len(responses) : responses[i].dropped

\* the number of down() calls, resp. up() calls, made by the step
DownCalls == Len(tracker'.downtimes) - Len(tracker.downtimes)
UpCalls == Len(tracker'.uptimes) - Len(tracker.uptimes)

\* C1: after TimeTracker::new() and any sequence of down() and up() calls,
\* exactly one of uptime / downtime is present (is_up() and is_down() are
\* never both true nor both false), and the fresh ledger is up.
C1_ExactlyOneOpen ==
    /\ is_up(tracker) # is_down(tracker)
    /\ lastCall = "new" => is_up(tracker)

\* down() was called twice in a row, then the ledger is still down
C1_Witness ==
    /\ lastCall = "down"
    /\ Len(tracker.downtimes) >= 2
    /\ Len(tracker.uptimes) = 1
    /\ is_down(tracker)

\* C2: the foreground loop calls down() only when the ledger is up and the
\* batch it received has every target dropped, up() only when the ledger is
\* down and the batch has a target that answered, and makes at most one of
\* the two calls per batch (none without a batch).
C2_EdgeOnly ==
    [][/\ DownCalls >= 0 /\ UpCalls >= 0 /\ DownCalls + UpCalls <= 1
       /\ DownCalls + UpCalls = 1 => (chan # <<>> /\ chan' = Tail(chan))
       /\ DownCalls = 1 =>
            is_up(tracker) /\ ~is_down(tracker) /\ AllDropped(Head(chan))
       /\ UpCalls = 1 =>
            is_down(tracker) /\ ~is_up(tracker) /\ ~AllDropped(Head(chan))]_vars

\* the loop has made both calls; the batch received last had every target
\* answering and left the ledger up
C2_Witness ==
    /\ Len(tracker.downtimes) >= 1
    /\ Len(tracker.uptimes) >= 2
    /\ lastCall = "up"
    /\ dropped = 0

\* C3: for a received batch of N outcomes the classifier leaves the ledger
\* down exactly if all N are dropped; with any other drop count, N-1
\* included, it leaves the ledger up.
C3_DownIffAllDropped ==
    [][Len(chan') < Len(chan) =>
        LET batch == Head(chan)
            N     == Len(batch)
            count == Cardinality({i \in 1..N : batch[i].dropped})
        IN  /\ dropped' = count
            /\ is_down(tracker') <=> (count = N)
            /\ is_up(tracker') <=> (count # N)]_vars

\* a batch with N-1 of N targets dropped has brought the ledger back up
C3_Witness ==
    /\ dropped = NumHosts - 1
    /\ lastCall = "up"
    /\ is_up(tracker)
    /\ Len(tracker.downtimes) >= 1

\* a history entry that finalize() has been called on
Finalized(p) == p.fins > 0

\* the entries of history h that are finalized before and after the step
\* report the same elapsed() before and after it
Frozen(h, hn) ==
    \A i \in 1..Len(h) :
        (i <= Len(hn) /\ Finalized(h[i]) /\ hn[i].fins = h[i].fins)
            => elapsed(hn[i], now') = elapsed(h[i], now)

\* C4: a finalized Period reports the same elapsed() at every later time,
\* also when it was finalized in the second it was started; so the total
\* downtime does not change while the ledger stays up.
C4_FinalizedIsFrozen ==
    [][/\ Frozen(tracker.uptimes, tracker'.uptimes)
       /\ Frozen(tracker.downtimes, tracker'.downtimes)
       /\ (is_up(tracker) /\ is_up(tracker') /\ DownCalls = 0)
            => total_downtime_str(tracker', now') = total_downtime_str(tracker, now)]_vars

\* C5: the seconds summed over the uptime history never exceed the seconds
\* elapsed since the ledger's start (uptime_percentage() is at most 1).
C5_UptimeWithinElapsed ==
    LET q == uptime_percentage(tracker, now)
    IN  q.num <= q.den

\* C6: evaluated in the second the ledger was created, uptime_percentage()
\* is the number 0.
C6_ZeroAtStart ==
    now = tracker.start =>
        LET q == uptime_percentage(tracker, now)
        IN  q.kind = "finite" /\ q.num = 0

\* C7: longest_uptime_str() reports at least the elapsed time of every entry
\* of the uptime history and of the open uptime period, if there is one.
C7_LongestUptimeIsMax ==
    LET longest == SecondsOf(longest_uptime_str(tracker, now))
    IN  /\ \A i \in 1..Len(tracker.uptimes) :
              longest >= elapsed(tracker.uptimes[i], now)
        /\ is_up(tracker) => longest >= elapsed(unwrap(tracker.uptime), now)

\* the open uptime period is longer than every entry of a history that holds
\* closed periods too: longest_uptime_str() takes the branch of line 153
C7_Witness ==
    /\ is_up(tracker)
    /\ Len(tracker.uptimes) >= 2
    /\ elapsed(unwrap(tracker.uptime), now)
         > elapsed(unwrap(max_by(tracker.uptimes, now)), now)
    /\ elapsed(tracker.uptimes[1], now) > 0

\* C8: longest_downtime_str() reports the greatest elapsed() of the downtime
\* history, the open downtime included: while the ledger is down it is at
\* least the elapsed time of the current downtime, and it is zero only when
\* no downtime has a non-zero elapsed time.
C8_LongestDowntimeIsMax ==
    LET longest == SecondsOf(longest_downtime_str(tracker, now))
    IN  /\ \A i \in 1..Len(tracker.downtimes) :
              longest >= elapsed(tracker.downtimes[i], now)
        /\ is_down(tracker) => longest >= elapsed(unwrap(tracker.downtime), now)
        /\ longest = 0 =>
              /\ \A i \in 1..Len(tracker.downtimes) :
                    elapsed(tracker.downtimes[i], now) = 0
              /\ is_down(tracker) => elapsed(unwrap(tracker.downtime), now) = 0

\* the length relation of the two histories
HistoryLengths ==
    /\ is_up(tracker) => Len(tracker.uptimes) = Len(tracker.downtimes) + 1
    /\ is_down(tracker) => Len(tracker.uptimes) = Len(tracker.downtimes)

\* C9 as stated: for every strictly alternating sequence of down() / up()
\* calls on a fresh ledger, the uptime history has one entry more than the
\* downtime history when the ledger is up, and as many when it is down.
C9_Original == HistoryLengths

\* C9 as amended: the same, for the alternating sequences that begin with
\* down().
C9_AlternatingFromDown == firstCall # "up" => HistoryLengths

\* down(), up(), down() on a fresh ledger
C9_Witness ==
    /\ firstCall = "down"
    /\ lastCall = "down"
    /\ Len(tracker.downtimes) = 2
    /\ Len(tracker.uptimes) = 2

\* history h is open at its end and closed everywhere else
ClosedButLast(h) ==
    \A i \in 1..Len(h) : h[i].fins = (IF i < Len(h) THEN 1 ELSE 0)

\* every entry of history h has been finalized exactly once
AllClosed(h) == \A i \in 1..Len(h) : h[i].fins = 1

\* the step keeps every entry of history h in place and unchanged, except
\* that it may finalize the last entry, once, while appending to the other
\* history
AppendOnly(h, hn, otherGrows) ==
    /\ Len(hn) >= Len(h)
    /\ \A i \in 1..Len(h) :
          \/ hn[i] = h[i]
          \/ /\ i = Len(h)
             /\ otherGrows
             /\ h[i].fins = 0
             /\ hn[i] = finalize(h[i], hn[i].start + hn[i].len)
             /\ hn[i].start + hn[i].len \in now..now'

\* C10: in the program both histories are append-only, every entry but the
\* last is finalized, the last entry of the current state's history is open,
\* and no entry is finalized more than once: the closed length is written
\* once, by the transition that closes the entry.
C10_AppendOnlyFinalizedOnce ==
    /\ [](/\ is_up(tracker) =>
                ClosedButLast(tracker.uptimes) /\ AllClosed(tracker.downtimes)
          /\ is_down(tracker) =>
                ClosedButLast(tracker.downtimes) /\ AllClosed(tracker.uptimes))
    /\ [][/\ AppendOnly(tracker.uptimes, tracker'.uptimes, DownCalls = 1)
          /\ AppendOnly(tracker.downtimes, tracker'.downtimes, UpCalls = 1)]_vars

\* two closed uptimes and two closed or open downtimes are on record
C10_Witness ==
    /\ Len(tracker.uptimes) >= 2
    /\ Len(tracker.downtimes) >= 2
    /\ is_down(tracker)
    /\ tracker.uptimes[2].len > 0

\* C11: a failed probe round (configuration rejected or send() in error)
\* delivers nothing and leaves the thread sleeping until the next attempt,
\* so that no two probe attempts are made without a sleep in between.
C11_SleepAfterFailure ==
    /\ [][(BgConfigFail \/ BgSendFail) => (chan' = chan /\ bg'.pc = "sleep")]_vars
    /\ [](bg.attempts <= 1)

\* C12: an iteration of the loop takes at most one batch, the oldest one,
\* and classifies that one; with nothing to receive it still runs (it is
\* never blocked) and leaves the ledger as it is.
C12_OneBatchPerIteration ==
    /\ [](fg = "loop" => ENABLED Foreground)
    /\ [][/\ Len(chan') >= Len(chan) - 1
          /\ Len(chan') < Len(chan) =>
                /\ chan' = Tail(chan)
                /\ dropped' = count_dropped(Head(chan))
                /\ tracker' \in {tracker}
                      \cup {apply(tracker, transition(tracker, Head(chan)), r) :
                               r \in ClockReads(now)}
          /\ Len(chan') >= Len(chan) =>
                tracker' = tracker /\ dropped' = dropped]_vars

\* the ledger went down on the first of two waiting batches; the second,
\* which will bring it up again, is still in the channel
C12_Witness ==
    /\ is_down(tracker)
    /\ dropped = NumHosts
    /\ Len(chan) = 1
    /\ count_dropped(chan[1]) = 0
    /\ bg.pc = "sleep"
    /\ now < bg.wake

\* C13: 0 <= list_selection <= len(downtimes) in every state of the loop;
\* 'u' at 0 and 'd' at len(downtimes) leave the index where it is.
C13_SelectionInRange ==
    /\ 0 <= list_selection
    /\ list_selection <= Len(tracker.downtimes)
    /\ on_key(0, tracker, "u").list_selection = 0
    /\ on_key(Len(tracker.downtimes), tracker, "d").list_selection
          = Len(tracker.downtimes)

\* the index has been moved down to the end of a list of two downtimes
C13_Witness ==
    /\ Len(tracker.downtimes) = 2
    /\ list_selection = 2

\* C14: handling a key other than 'q' (resize, 'u', 'd', 'f', any other)
\* leaves the ledger as it was, and a resize leaves list_selection as it
\* was; an iteration that receives no batch therefore changes no ledger.
C14_InputKeepsLedger ==
    /\ [](\A key \in Keys \ {"q"} :
             on_key(list_selection, tracker, key).tracker = tracker)
    /\ [](on_key(list_selection, tracker, "resize").list_selection = list_selection)
    /\ [][chan = <<>> => tracker' = tracker]_vars

\* keys are handled with downtimes on record, a moved index and no batch
\* waiting
C14_Witness ==
    /\ fg = "loop"
    /\ chan = <<>>
    /\ Len(tracker.downtimes) >= 1
    /\ list_selection >= 1

\* the last entry of a non-empty history
Last(h) == h[Len(h)]

\* C15: the open current period is the trailing entry of its history: it
\* has the same start, and so the same elapsed(), after new() and after
\* every down() / up(), also when the clock advances during the call.
C15_CurrentIsTrailing ==
    /\ is_up(tracker) =>
          /\ unwrap(tracker.uptime).start = Last(tracker.uptimes).start
          /\ elapsed(unwrap(tracker.uptime), now) = elapsed(Last(tracker.uptimes), now)
    /\ is_down(tracker) =>
          /\ unwrap(tracker.downtime).start = Last(tracker.downtimes).start
          /\ elapsed(unwrap(tracker.downtime), now)
                = elapsed(Last(tracker.downtimes), now)

\* C16: a freshly constructed ledger is up and not down, reports a total
\* downtime of 0, has no downtime on record and has exactly one uptime on
\* record, which is open.
C16_FreshLedger ==
    lastCall = "new" =>
        /\ is_up(tracker)
        /\ ~is_down(tracker)
        /\ total_downtime_str(tracker, now) = ZeroStr
        /\ SecondsOf(total_downtime_str(tracker, now)) = 0
        /\ tracker.downtimes = <<>>
        /\ Len(tracker.uptimes) = 1
        /\ ~Finalized(tracker.uptimes[1])
        /\ tracker.uptimes[1].len = 0

\* the fresh ledger, looked at two seconds after it was made
C16_Witness ==
    /\ lastCall = "new"
    /\ now >= tracker.start + 2

\* one of the ten digit characters
IsDigit(c) == \E d \in 1..10 : DigitChars[d] = c

\* every character of str is a digit
AllDigits(str) == \A i \in 1..Len(str) : IsDigit(str[i])

\* C17: format_duration renders s seconds as hours:minutes:seconds with
\* hours = s div 3600, minutes = (s mod 3600) div 60, seconds = s mod 60,
\* each padded with zeros to two digits, minutes and seconds in 0..59; so
\* 0 gives 00:00:00, 3661 gives 01:01:01 and 86399 gives 23:59:59.
C17_FormatDuration ==
    LET s   == elapsed(unwrap(tracker.uptime), now)
        str == uptime_str(tracker, now)
        n   == Len(str)
        hh  == SubSeq(str, 1, n - 6)
        mm  == SubSeq(str, n - 4, n - 3)
        ss  == SubSeq(str, n - 1, n)
    IN  /\ str = format_duration(s)
        /\ n >= 8
        /\ str[n - 5] = ":" /\ str[n - 2] = ":"
        /\ AllDigits(hh) /\ AllDigits(mm) /\ AllDigits(ss)
        /\ NumberOf(hh) = s \div 3600
        /\ NumberOf(mm) = (s % 3600) \div 60
        /\ NumberOf(ss) = s % 60
        /\ NumberOf(mm) \in 0..59 /\ NumberOf(ss) \in 0..59
        /\ s \div 3600 < 100 => n = 8
        /\ s = 0 => str = <<"0", "0", ":", "0", "0", ":", "0", "0">>
        /\ s = 3661 => str = <<"0", "1", ":", "0", "1", ":", "0", "1">>
        /\ s = 86399 => str = <<"2", "3", ":", "5", "9", ":", "5", "9">>

\* one hour, one minute and one second are on the clock
C17_Witness ==
    /\ elapsed(unwrap(tracker.uptime), now) = 3661
    /\ uptime_str(tracker, now) = <<"0", "1", ":", "0", "1", ":", "0", "1">>

\* start and length of every entry of a history
Spans(h) == [i \in 1..Len(h) |-> <<h[i].start, h[i].len>>]

\* the step is a down() on a ledger that is already down
DownWhileDown == is_down(tracker) /\ DownCalls = 1

\* what C18 and its amendment agree on: the ledger stays down and the
\* downtime history gets one more open period behind its old entries
SpuriousDowntime ==
    /\ is_down(tracker')
    /\ ~is_up(tracker')
    /\ Len(tracker'.downtimes) = Len(tracker.downtimes) + 1
    /\ SubSeq(tracker'.downtimes, 1, Len(tracker.downtimes)) = tracker.downtimes
    /\ ~Finalized(Last(tracker'.downtimes))
    /\ Last(tracker'.downtimes).len = 0

\* C18 as stated: down() on a ledger that is already down only adds one
\* open period to the downtime history and leaves the ledger down; the
\* uptime history, the closed length of its last entry included, is the
\* same before and after.
C18_Original ==
    [][DownWhileDown =>
          /\ SpuriousDowntime
          /\ Spans(tracker'.uptimes) = Spans(tracker.uptimes)]_vars

\* C18 as amended: ... the uptime history keeps its entries and their
\* starts, but its last entry is finalized once more: its closed length
\* becomes the time from its start to this call.
C18_RefinalizesLastUptime ==
    [][DownWhileDown =>
          /\ SpuriousDowntime
          /\ Len(tracker'.uptimes) = Len(tracker.uptimes)
          /\ \A i \in 1..Len(tracker.uptimes) :
                /\ tracker'.uptimes[i].start = tracker.uptimes[i].start
                /\ i < Len(tracker.uptimes) =>
                      tracker'.uptimes[i] = tracker.uptimes[i]
          /\ \E t \in now..now' :
                Last(tracker'.uptimes).len = t - Last(tracker.uptimes).start]_vars

\* down() was called a second time one or more seconds after the first:
\* the only uptime on record has been finalized twice and is now longer
\* than the uptime that ended with the first call
C18_Witness ==
    /\ lastCall = "down"
    /\ Len(tracker.uptimes) = 1
    /\ Len(tracker.downtimes) = 2
    /\ tracker.uptimes[1].fins = 2
    /\ tracker.uptimes[1].start + tracker.uptimes[1].len > tracker.downtimes[1].start

\* the step delivers a batch and every target of it is dropped
DeliversAllDropped == BgDeliver => AllDropped(Last(chan'))

\* the step delivers a batch and some target of it has answered
DeliversAnswered == BgDeliver => ~AllDropped(Last(chan'))

\* C19: with the loop running (not quit) and batches arriving again and
\* again: if from some point on every delivered batch has all targets
\* dropped, the ledger ends up down for good, and if from some point on
\* every delivered batch has a target that answered, it ends up up for
\* good, whatever was waiting in the channel at that point.
C19_FollowsLink ==
    /\ ([](fg = "loop") /\ []<><<BgDeliver>>_vars /\ <>[][DeliversAllDropped]_vars)
          => <>[]is_down(tracker)
    /\ ([](fg = "loop") /\ []<><<BgDeliver>>_vars /\ <>[][DeliversAnswered]_vars)
          => <>[]is_up(tracker)

\* the ledger has gone down for the second time while the channel is full
\* of batches whose targets are all dropped
C19_Witness ==
    /\ is_down(tracker)
    /\ Len(tracker.downtimes) = 2
    /\ Len(chan) = MaxChan
    /\ \A i \in 1..Len(chan) : AllDropped(chan[i])

====
